---- MODULE Spec2Model ----
(***************************************************************************)
(* A model of the region-based allocator of arena_allocator.h.             *)
(*                                                                         *)
(* Every mmap'ed mapping gets an identity (1, 2, ... in the order of the   *)
(* mmap calls); an address is a pair [map, addr] of a mapping and a byte   *)
(* offset from the start of that mapping.  The Region header occupies the  *)
(* first ARENA_REGION_SIZE bytes of its mapping, so region->bytes is       *)
(* offset ARENA_REGION_SIZE and "offset k of the Region" is the address    *)
(* bytes + k.  size_t arithmetic is taken modulo 2^WordBits.  The memory   *)
(* holds only the bytes that are not zero (a fresh mapping is all zero).   *)
(***************************************************************************)
EXTENDS Integers, Sequences, FiniteSets, TLC

(* ------------------------------ bounds -------------------------------- *)
\* total number of arena_alloc / arena_realloc calls in a behaviour
MaxCalls == 3
\* total number of arena_reset calls in a behaviour
MaxResets == 1
\* width of size_t in the model
WordBits == 16

(* ------------------------- program constants -------------------------- *)
\* sysconf(_SC_PAGESIZE)
ARENA_PAGE_SIZE == 4096
\* sizeof(Region): five 8-byte fields
ARENA_REGION_SIZE == 40
ARENA_REGION_DEFAULT_CAPACITY == ARENA_PAGE_SIZE * 2

SizeMod == 2 ^ WordBits
NULL == 0
NULLPTR == [map |-> NULL, addr |-> 0]
\* the threads that call arena_alloc / arena_realloc
Threads == {1, 2}
NoThread == 0

\* the sizes the callers pass
InitSizes == {100, ARENA_REGION_DEFAULT_CAPACITY, SizeMod - 1}
AllocSizes == {0, 100, 4056, 8160, 12288}
ReallocSizes == {4056}

VARIABLES
    phase,     \* where the caller is in the arena's life: Uninitialized, Active, Destroyed
    head,      \* arena->head: a mapping identity or NULL
    tail,      \* arena->tail
    mutex,     \* arena->mutex: [init, owner]
    heap,      \* the Region headers of the live mappings: id -> Region
    maplen,    \* id -> the length that was passed to mmap for it
    live,      \* the mappings currently mapped
    nmaps,     \* number of successful mmap calls so far
    unmapLog,  \* the munmap calls so far, in order: <<[map, len], ...>>
    pc,        \* per thread: idle, check, lock, alloc, remaining, copy, unlock
    call,      \* per thread: the arguments of its current or last call
    ptr,       \* per thread: the local ptr / new_ptr, the value returned
    issued,    \* blocks handed out since arena_init or the last arena_reset
    ncalls,    \* number of calls made so far
    nresets,   \* number of resets made so far
    aborted,   \* an assert has failed: the process is gone
    mem,       \* the bytes that are not zero: a set of [map, addr, val]
    align,     \* a caller of arena__align__size alone: [a, b, ra, rb, pc]
    resetting  \* an arena_reset that runs beside the threads: [pc, curr,
               \* overlapped]; overlapped: one of its two writes to a Region
               \* fell between the two writes of an allocation, or the
               \* reverse, or it re-created the mutex that a thread held

vars == <<phase, head, tail, mutex, heap, maplen, live, nmaps, unmapLog,
          pc, call, ptr, issued, ncalls, nresets, aborted, mem, align,
          resetting>>

arenaVars == <<head, tail, mutex, heap, maplen, live, nmaps, unmapLog>>

(* ----------------------------- helpers -------------------------------- *)
\* x & ~(page_size - 1): page_size is a power of two, so the mask clears
\* the bits below it, which is x minus its remainder
ClearLowBits(x) == x - (x % ARENA_PAGE_SIZE)

arena__align__size(size) ==
    LET size_bytes == (ARENA_REGION_SIZE + size) % SizeMod
    IN  ClearLowBits((size_bytes + ARENA_PAGE_SIZE - 1) % SizeMod)

\* faulty variant of arena__new__region: the header is not taken off the
\* capacity
RegionNoHeader(size) ==
    [next |-> NULL, capacity |-> size, count |-> 0,
     remaining |-> size, bytes |-> ARENA_REGION_SIZE]

\* the Region that arena__new__region writes at the start of a fresh
\* mapping of `size` bytes
arena__new__region(size) ==
    [next      |-> NULL,
     capacity  |-> (size - ARENA_REGION_SIZE) % SizeMod,
     count     |-> 0,
     remaining |-> (size - ARENA_REGION_SIZE) % SizeMod,
     bytes     |-> ARENA_REGION_SIZE]

\* mmap refuses a length of 0 (EINVAL); any other length the OS may or may
\* not grant
MmapCanSucceed(size) == size # 0

\* faulty variant of Mapped: the result of mmap is taken as a mapping
\* whatever it is
MappedUnchecked(ok, size) == TRUE

\* ptr != MAP_FAILED: the OS granted (ok) a mapping of `size` bytes
Mapped(ok, size) == ok /\ MmapCanSucceed(size)

\* the heap with a new mapping n holding region r
WithRegion(h, n, r) ==
    [i \in (DOMAIN h) \cup {n} |-> IF i = n THEN r ELSE h[i]]

WithLen(m, n, len) ==
    [i \in (DOMAIN m) \cup {n} |-> IF i = n THEN len ELSE m[i]]

(* --------------------------- the Region list --------------------------- *)
\* the Regions met by  for(curr = from; curr != NULL; curr = curr->next)
RECURSIVE RegionsFrom(_, _)
RegionsFrom(h, curr) ==
    IF curr = NULL THEN <<>> ELSE <<curr>> \o RegionsFrom(h, h[curr].next)

Range(s) == {s[i] : i \in DOMAIN s}

\* faulty variant of Fits: a request of no bytes fits nowhere
FitsNonEmpty(size, remaining) == 0 < size /\ size <= remaining

\* faulty variant of Fits: a request that fills the Region exactly is refused
FitsStrictly(size, remaining) == size < remaining

\* the test of the first-fit loop
Fits(size, remaining) == size <= remaining

\* faulty variant of FirstFit: the last Region of the list with room is
\* taken, not the first
LastFit(h, curr, size) ==
    LET rs  == RegionsFrom(h, curr)
        fit == {k \in DOMAIN rs : size <= h[rs[k]].remaining}
    IN  IF fit = {} THEN NULL
        ELSE rs[CHOOSE k \in fit : \A j \in fit : j <= k]

\* the Region at which the first-fit loop returns, NULL when it runs off
\* the end of the list
RECURSIVE FirstFit(_, _, _)
FirstFit(h, curr, size) ==
    IF curr = NULL THEN NULL
    ELSE IF Fits(size, h[curr].remaining) THEN curr
    ELSE FirstFit(h, h[curr].next, size)

\* the byte count arena__append__region hands to arena__new__region
AppendLen(size) ==
    IF size < ARENA_REGION_DEFAULT_CAPACITY
    THEN ARENA_REGION_DEFAULT_CAPACITY
    ELSE arena__align__size(size)

\* faulty variant of arena__append__region: tail moves to the new Region
\* but the old tail is not linked to it
AppendNoLink(h, tl, n, region) ==
    [heap |-> WithRegion(h, n, region), tail |-> n]

\* faulty variant of arena__append__region: arena->tail is not moved
AppendKeepTail(h, tl, n, region) ==
    [heap |-> WithRegion([h EXCEPT ![tl].next = n], n, region), tail |-> tl]

\* the linking done by arena__append__region with the new Region `region`
\* in mapping n
arena__append__region(h, tl, n, region) ==
    [heap |-> WithRegion([h EXCEPT ![tl].next = n], n, region), tail |-> n]

\* faulty variant of Bump: the fields are assigned where they should be
\* added to and taken from
BumpAssigns(region, size) ==
    [region EXCEPT !.count     = size,
                   !.remaining = (region.capacity - size) % SizeMod]

\* faulty variant of Bump: remaining is not reduced
BumpCountOnly(region, size) ==
    [region EXCEPT !.count = (@ + size) % SizeMod]

\* curr->count += size; curr->remaining -= size;
Bump(region, size) ==
    [region EXCEPT !.count     = (@ + size) % SizeMod,
                   !.remaining = (@ - size) % SizeMod]

\* arena__alloc__unlocked on the list (h, hd, tl) when a new mapping, if one
\* is needed, is granted and gets identity n: the new list and the pointer
arena__alloc__unlocked(h, hd, tl, size, n) ==
    LET curr == FirstFit(h, hd, size)
    IN  IF curr # NULL
        THEN [heap  |-> [h EXCEPT ![curr] = Bump(h[curr], size)],
              tail  |-> tl,
              ptr   |-> [map |-> curr, addr |-> h[curr].bytes + h[curr].count],
              grown |-> FALSE]
        ELSE LET a == arena__append__region(h, tl, n,
                          arena__new__region(AppendLen(size)))
             IN  [heap  |-> a.heap,
                  tail  |-> a.tail,
                  ptr   |-> [map  |-> a.tail,
                             addr |-> a.heap[a.tail].bytes + a.heap[a.tail].count],
                  grown |-> TRUE]

\* faulty variant of ReallocKeeps: the comparison is turned round
ReallocKeepsInverted(old_size, new_size) == old_size < new_size

\* the test of the early return of arena_realloc
ReallocKeeps(old_size, new_size) == new_size < old_size

\* faulty variant of ResetRegion: remaining is not restored
ResetCountOnly(r) == [r EXCEPT !.count = 0]

\* the loop body of arena_reset
ResetRegion(r) == [r EXCEPT !.count = 0, !.remaining = r.capacity]

\* faulty variant of Freed: the walk stops after the head
FreedHeadOnly(h, hd) == IF hd = NULL THEN <<>> ELSE <<hd>>

\* the Regions arena_destroy passes to arena__free__region, in order
Freed(h, hd) == RegionsFrom(h, hd)

\* the size arena__free__region passes to munmap
FreeSize(region) == (ARENA_REGION_SIZE + region.capacity) % SizeMod

\* munmap(addr, len) unmaps the pages that hold [addr, addr + len): the
\* mapping is gone when they cover all of it
PageCeil(len) == ((len + ARENA_PAGE_SIZE - 1) \div ARENA_PAGE_SIZE) * ARENA_PAGE_SIZE
MunmapRemoves(len, mapped_len) == PageCeil(len) >= mapped_len

AllIdle == \A t \in Threads : pc[t] = "idle"

NoCall == [op |-> "none", size |-> 0, old_ptr |-> NULLPTR, old_size |-> 0]

\* no arena_reset is running beside the threads
NoReset == [pc |-> "none", curr |-> NULL, overlapped |-> FALSE]

\* no caller of arena__align__size alone
NoAlign == [a |-> 0, b |-> 0, ra |-> 0, rb |-> 0, pc |-> "none"]

(* ------------------------------ memory -------------------------------- *)
\* the byte at address p
Read(m, p) ==
    LET hit == {r \in m : r.map = p.map /\ r.addr = p.addr}
    IN  IF hit = {} THEN 0 ELSE (CHOOSE r \in hit : TRUE).val

\* the memory after  *p = v
Write(m, p, v) ==
    {r \in m : ~(r.map = p.map /\ r.addr = p.addr)}
    \cup (IF v = 0 THEN {} ELSE {[map |-> p.map, addr |-> p.addr, val |-> v]})

\* address p + i
At(p, i) == [map |-> p.map, addr |-> p.addr + i]

\* the memory after
\*     for(i = 0; i < old_size; ++i) new_ptr[i] = old_ptr_char[i];
\* The loop runs upwards.  When the new block starts d bytes above the old
\* one inside it (0 < d < old_size), byte i >= d of the old block has been
\* overwritten, as byte i - d of the new block, before the loop reads it:
\* what the loop stores at new_ptr[i] is then what the old block held at
\* i % d.  In every other case it is what the old block held at i.
CopyLoop(m, new_ptr, old_ptr, old_size) ==
    LET d == new_ptr.addr - old_ptr.addr
        runsInto == new_ptr.map = old_ptr.map /\ 0 < d /\ d < old_size
        src(i) == IF runsInto THEN i % d ELSE i
        kept == {r \in m : ~(/\ r.map = new_ptr.map
                              /\ r.addr >= new_ptr.addr
                              /\ r.addr < new_ptr.addr + old_size)}
        read == {r \in m : /\ r.map = old_ptr.map
                           /\ r.addr >= old_ptr.addr
                           /\ r.addr < old_ptr.addr + old_size}
    IN  kept \cup
        (IF runsInto
         THEN {[map |-> new_ptr.map, addr |-> new_ptr.addr + i,
                val |-> Read(m, At(old_ptr, src(i)))] :
                  i \in {j \in 0 .. old_size - 1 :
                            Read(m, At(old_ptr, src(j))) # 0}}
         ELSE {[map |-> new_ptr.map, addr |-> r.addr + d, val |-> r.val] :
                  r \in read})

(* ------------------------------- Init --------------------------------- *)
\* Arena arena = {0};
NoArena ==
    /\ phase = "Uninitialized"
    /\ head = NULL
    /\ tail = NULL
    /\ mutex = [init |-> FALSE, owner |-> NoThread]
    /\ heap = <<>>
    /\ maplen = <<>>
    /\ live = {}
    /\ nmaps = 0
    /\ unmapLog = <<>>
    /\ pc = [t \in Threads |-> "idle"]
    /\ call = [t \in Threads |-> NoCall]
    /\ ptr = [t \in Threads |-> NULLPTR]
    /\ issued = <<>>
    /\ ncalls = 0
    /\ nresets = 0
    /\ aborted = FALSE
    /\ mem = {}
    /\ resetting = NoReset

Init == NoArena /\ align = NoAlign

(* ------------------------------- mutex -------------------------------- *)
\* faulty variant of MutexFree: pthread_mutex_lock never waits
MutexAlwaysFree(m) == TRUE

\* pthread_mutex_lock returns only when no thread holds the mutex
MutexFree(m) == m.owner = NoThread

\* faulty variant of Released: the mutex stays with its holder
NotReleased(m) == m

\* the mutex after pthread_mutex_unlock
Released(m) == [m EXCEPT !.owner = NoThread]

\* faulty variant of AssertHead: arena_alloc does not look at head
AssertHeadSkipped(hd) == TRUE

\* assert(arena->head != NULL) of arena_alloc
AssertHead(hd) == hd # NULL

(* ------------------------------ actions ------------------------------- *)
\* arena_init(arena, size); ok: whether the OS grants the mapping
arena_init(size, ok) ==
    /\ ~aborted
    /\ phase = "Uninitialized"
    /\ AllIdle
    /\ LET len == arena__align__size(size)
           n   == nmaps + 1
       IN  IF Mapped(ok, len)
           THEN /\ heap' = WithRegion(heap, n, arena__new__region(len))
                /\ maplen' = WithLen(maplen, n, len)
                /\ live' = live \cup {n}
                /\ nmaps' = n
                /\ head' = n
                /\ tail' = n
                /\ mutex' = [init |-> TRUE, owner |-> NoThread]
                /\ phase' = "Active"
                /\ UNCHANGED aborted
           ELSE /\ aborted' = TRUE   \* assert(ptr != MAP_FAILED)
                /\ UNCHANGED <<heap, maplen, live, nmaps, head, tail, mutex, phase>>
    /\ UNCHANGED <<unmapLog, pc, call, ptr, issued, ncalls, nresets>>
    /\ UNCHANGED <<mem, align, resetting>>

\* arena_alloc up to the call of pthread_mutex_lock
AllocCall(t, size) ==
    /\ ~aborted
    /\ pc[t] = "idle"
    /\ ncalls < MaxCalls
    /\ ncalls' = ncalls + 1
    /\ call' = [call EXCEPT ![t] = [op |-> "alloc", size |-> size,
                                    old_ptr |-> NULLPTR, old_size |-> 0]]
    /\ IF AssertHead(head)
       THEN /\ pc' = [pc EXCEPT ![t] = "lock"]
            /\ UNCHANGED aborted
       ELSE /\ aborted' = TRUE       \* assert(arena->head != NULL)
            /\ UNCHANGED pc
    /\ UNCHANGED <<phase, arenaVars, ptr, issued, nresets>>
    /\ UNCHANGED <<mem, align, resetting>>

\* the blocks a thread may pass to arena_realloc: one it was given, with
\* its size, or the null pointer with size 0 (an empty array); after
\* arena_destroy, the pointer and size of its last call, which it still holds
OldBlocks(t) ==
    {[ptr |-> issued[i].ptr, size |-> issued[i].size] :
        i \in {j \in DOMAIN issued : issued[j].thread = t}}
    \cup {[ptr |-> NULLPTR, size |-> 0]}
    \cup (IF phase = "Destroyed" /\ ptr[t] # NULLPTR
          THEN {[ptr |-> ptr[t], size |-> call[t].size]} ELSE {})

\* a thread calls arena_realloc(arena, old.ptr, old.size, new_size)
ReallocCall(t, old, new_size) ==
    /\ ~aborted
    /\ pc[t] = "idle"
    /\ ncalls < MaxCalls
    /\ ncalls' = ncalls + 1
    /\ call' = [call EXCEPT ![t] = [op |-> "realloc", size |-> new_size,
                                    old_ptr |-> old.ptr, old_size |-> old.size]]
    /\ pc' = [pc EXCEPT ![t] = "check"]
    /\ UNCHANGED <<phase, arenaVars, ptr, issued, nresets, aborted>>
    /\ UNCHANGED <<mem, align, resetting>>

\* arena_realloc up to its early return or the call of pthread_mutex_lock
ReallocCheck(t) ==
    /\ ~aborted
    /\ pc[t] = "check"
    /\ IF ReallocKeeps(call[t].old_size, call[t].size)
       THEN /\ ptr' = [ptr EXCEPT ![t] = call[t].old_ptr]     \* return old_ptr
            /\ pc' = [pc EXCEPT ![t] = "idle"]
       ELSE /\ pc' = [pc EXCEPT ![t] = "lock"]
            /\ UNCHANGED ptr
    /\ UNCHANGED <<phase, arenaVars, call, issued, ncalls, nresets, aborted>>
    /\ UNCHANGED <<mem, align, resetting>>

\* pthread_mutex_lock returns.  On a mutex that is not initialized (never
\* initialized, or destroyed) the behaviour is undefined: with ok the call
\* acts as on an initialized mutex, without ok it returns an error
Lock(t, ok) ==
    /\ ~aborted
    /\ pc[t] = "lock"
    /\ IF mutex.init \/ ok
       THEN /\ MutexFree(mutex)
            /\ mutex' = [mutex EXCEPT !.owner = t]
            /\ pc' = [pc EXCEPT ![t] = "alloc"]
            /\ UNCHANGED aborted
       ELSE /\ aborted' = TRUE       \* assert(ret == 0)
            /\ UNCHANGED <<mutex, pc>>
    /\ UNCHANGED <<phase, head, tail, heap, maplen, live, nmaps, unmapLog,
                   call, ptr, issued, ncalls, nresets>>
    /\ UNCHANGED <<mem, align, resetting>>

\* arena__alloc__unlocked(arena, size), run by the holder of the mutex
AllocUnlocked(t, ok) ==
    /\ ~aborted
    /\ pc[t] = "alloc"
    /\ LET size == call[t].size
           n    == nmaps + 1
           len  == AppendLen(size)
       IN  IF head = NULL
           THEN /\ aborted' = TRUE   \* assert(arena->head != NULL)
                /\ UNCHANGED <<heap, tail, maplen, live, nmaps, ptr, issued, pc>>
           ELSE IF FirstFit(heap, head, size) = NULL /\ ~Mapped(ok, len)
           THEN /\ aborted' = TRUE   \* assert(ptr != MAP_FAILED)
                /\ UNCHANGED <<heap, tail, maplen, live, nmaps, ptr, issued, pc>>
           ELSE LET r == arena__alloc__unlocked(heap, head, tail, size, n)
                IN  /\ heap' = r.heap
                    /\ tail' = r.tail
                    /\ maplen' = IF r.grown THEN WithLen(maplen, n, len) ELSE maplen
                    /\ live' = IF r.grown THEN live \cup {n} ELSE live
                    /\ nmaps' = IF r.grown THEN n ELSE nmaps
                    /\ ptr' = [ptr EXCEPT ![t] = r.ptr]
                    /\ issued' = Append(issued, [ptr |-> r.ptr, size |-> size,
                                                 thread |-> t, op |-> call[t].op])
                    /\ pc' = [pc EXCEPT ![t] =
                                 IF call[t].op = "realloc" THEN "copy" ELSE "unlock"]
                    /\ UNCHANGED aborted
    /\ UNCHANGED <<phase, head, mutex, unmapLog, call, ncalls, nresets>>
    /\ UNCHANGED <<mem, align, resetting>>

\* the copy loop of arena_realloc, run by the holder of the mutex
Copy(t) ==
    /\ ~aborted
    /\ pc[t] = "copy"
    /\ pc' = [pc EXCEPT ![t] = "unlock"]
    /\ mem' = CopyLoop(mem, ptr[t], call[t].old_ptr, call[t].old_size)
    /\ UNCHANGED <<phase, arenaVars, call, ptr, issued, ncalls, nresets, aborted, align,
                   resetting>>

\* pthread_mutex_unlock and the return of ptr
Unlock(t) ==
    /\ ~aborted
    /\ pc[t] = "unlock"
    /\ mutex' = Released(mutex)
    /\ pc' = [pc EXCEPT ![t] = "idle"]
    /\ UNCHANGED <<phase, head, tail, heap, maplen, live, nmaps, unmapLog,
                   call, ptr, issued, ncalls, nresets, aborted>>
    /\ UNCHANGED <<mem, align, resetting>>

\* arena_reset(arena), called when no other thread is using the arena
arena_reset ==
    /\ ~aborted
    /\ phase = "Active"
    /\ AllIdle
    /\ nresets < MaxResets
    /\ nresets' = nresets + 1
    /\ LET walked == Range(RegionsFrom(heap, head))
       IN  heap' = [i \in DOMAIN heap |->
                        IF i \in walked THEN ResetRegion(heap[i]) ELSE heap[i]]
    /\ mutex' = [init |-> TRUE, owner |-> NoThread]
    /\ issued' = <<>>
    /\ UNCHANGED <<phase, head, tail, maplen, live, nmaps, unmapLog,
                   pc, call, ptr, ncalls, aborted>>
    /\ UNCHANGED <<mem, align, resetting>>

\* the body of arena_destroy(arena): it takes no lock
DestroyBody ==
    /\ ~aborted
    /\ phase = "Active"
    /\ LET order == Freed(heap, head)
           gone  == {i \in Range(order) :
                        MunmapRemoves(FreeSize(heap[i]), maplen[i])}
       IN  /\ unmapLog' = unmapLog \o
                  [k \in 1 .. Len(order) |->
                      [map |-> order[k], len |-> FreeSize(heap[order[k]])]]
           /\ live' = live \ gone
           /\ heap' = [i \in (DOMAIN heap) \ gone |-> heap[i]]
           /\ mem' = {r \in mem : r.map \notin gone}
    /\ head' = NULL
    /\ tail' = NULL
    /\ mutex' = [init |-> FALSE, owner |-> NoThread]
    /\ phase' = "Destroyed"
    /\ issued' = <<>>
    /\ UNCHANGED <<maplen, nmaps, pc, call, ptr, ncalls, nresets, aborted, align,
                   resetting>>

\* arena_destroy(arena), called when no other thread is using the arena
arena_destroy == AllIdle /\ DestroyBody

Next ==
    \/ \E size \in InitSizes, ok \in BOOLEAN : arena_init(size, ok)
    \/ \E t \in Threads, size \in AllocSizes : AllocCall(t, size)
    \/ \E t \in Threads, new_size \in ReallocSizes :
           \E old \in OldBlocks(t) : ReallocCall(t, old, new_size)
    \/ \E t \in Threads : ReallocCheck(t)
    \/ \E t \in Threads, ok \in BOOLEAN : Lock(t, ok)
    \/ \E t \in Threads, ok \in BOOLEAN : AllocUnlocked(t, ok)
    \/ \E t \in Threads : Copy(t)
    \/ \E t \in Threads : Unlock(t)
    \/ arena_reset
    \/ arena_destroy

Spec == Init /\ [][Next]_vars

(* --------------------------- fair scheduling --------------------------- *)
\* a step of thread t inside a call it has made
ThreadStep(t) ==
    \/ ReallocCheck(t)
    \/ \E ok \in BOOLEAN : AllocUnlocked(t, ok)
    \/ Copy(t)
    \/ Unlock(t)

\* every thread that can go on inside its call does so in the end, and a
\* thread that finds the mutex free again and again gets it in the end
Fairness ==
    \A t \in Threads :
        /\ WF_vars(ThreadStep(t))
        /\ SF_vars(\E ok \in BOOLEAN : Lock(t, ok))

\* the sizes the callers pass in the runs checked for progress: a request
\* that fits the first Region and one that needs a new Region
FairInitSizes == {100}
FairAllocSizes == {100, 8160}

NextFair ==
    \/ \E size \in FairInitSizes, ok \in BOOLEAN : arena_init(size, ok)
    \/ \E t \in Threads, size \in FairAllocSizes : AllocCall(t, size)
    \/ \E t \in Threads, new_size \in ReallocSizes :
           \E old \in OldBlocks(t) : ReallocCall(t, old, new_size)
    \/ \E t \in Threads : ReallocCheck(t)
    \/ \E t \in Threads, ok \in BOOLEAN : Lock(t, ok)
    \/ \E t \in Threads, ok \in BOOLEAN : AllocUnlocked(t, ok)
    \/ \E t \in Threads : Copy(t)
    \/ \E t \in Threads : Unlock(t)
    \/ arena_reset
    \/ arena_destroy

SpecFair == Init /\ [][NextFair]_vars /\ Fairness

(* ------------------ arena__align__size on its own --------------------- *)
\* sizes around the points where size + sizeof(Region) and the round-up
\* reach a page boundary or the end of the size_t range
AlignInputs ==
    {0, 1, ARENA_PAGE_SIZE - ARENA_REGION_SIZE,
     ARENA_PAGE_SIZE - ARENA_REGION_SIZE + 1,
     ARENA_REGION_DEFAULT_CAPACITY - ARENA_REGION_SIZE,
     ARENA_REGION_DEFAULT_CAPACITY - ARENA_REGION_SIZE + 1,
     SizeMod - ARENA_PAGE_SIZE - ARENA_REGION_SIZE,
     SizeMod - ARENA_PAGE_SIZE - ARENA_REGION_SIZE + 1,
     SizeMod - ARENA_REGION_SIZE - 1,
     SizeMod - ARENA_REGION_SIZE,
     SizeMod - 2, SizeMod - 1}

\* a caller is about to pass a, then b, to arena__align__size
InitAlign ==
    /\ NoArena
    /\ align \in {[a |-> x, b |-> y, ra |-> 0, rb |-> 0, pc |-> "first"] :
                    x \in AlignInputs, y \in AlignInputs}

\* ra = arena__align__size(a)
AlignFirst ==
    /\ align.pc = "first"
    /\ align' = [align EXCEPT !.ra = arena__align__size(align.a), !.pc = "second"]
    /\ UNCHANGED <<phase, arenaVars, pc, call, ptr, issued, ncalls, nresets,
                   aborted, mem, resetting>>

\* rb = arena__align__size(b)
AlignSecond ==
    /\ align.pc = "second"
    /\ align' = [align EXCEPT !.rb = arena__align__size(align.b), !.pc = "done"]
    /\ UNCHANGED <<phase, arenaVars, pc, call, ptr, issued, ncalls, nresets,
                   aborted, mem, resetting>>

NextAlign == AlignFirst \/ AlignSecond

SpecAlign == InitAlign /\ [][NextAlign]_vars

(* ------------- arena_reset beside allocations in progress ------------- *)
\* the sizes the callers pass in these runs
RaceInitSizes == {100}
RaceAllocSizes == {100, 4056}

\* a thread is between curr->count += size and curr->remaining -= size
MidAlloc == \E t \in Threads : pc[t] = "remaining"

\* arena_reset is entered, whatever the threads are doing and whoever holds
\* the mutex: curr = arena->head
ResetBegin ==
    /\ ~aborted
    /\ phase = "Active"
    /\ resetting.pc = "none"
    /\ nresets < MaxResets
    /\ resetting' = [resetting EXCEPT !.pc = "count", !.curr = head]
    /\ UNCHANGED <<phase, arenaVars, pc, call, ptr, issued, ncalls, nresets,
                   aborted, mem, align>>

\* curr->count = 0;
ResetCount ==
    /\ ~aborted
    /\ resetting.pc = "count"
    /\ heap' = [heap EXCEPT ![resetting.curr].count =
                                ResetRegion(heap[resetting.curr]).count]
    /\ resetting' = [resetting EXCEPT !.pc = "remaining",
                                      !.overlapped = @ \/ MidAlloc]
    /\ UNCHANGED <<phase, head, tail, mutex, maplen, live, nmaps, unmapLog,
                   pc, call, ptr, issued, ncalls, nresets, aborted, mem, align>>

\* curr->remaining = curr->capacity;  curr = curr->next
ResetRemaining ==
    /\ ~aborted
    /\ resetting.pc = "remaining"
    /\ heap' = [heap EXCEPT ![resetting.curr].remaining =
                                ResetRegion(heap[resetting.curr]).remaining]
    /\ resetting' = [pc |-> IF heap[resetting.curr].next = NULL
                            THEN "mutex" ELSE "count",
                     curr |-> heap[resetting.curr].next,
                     overlapped |-> resetting.overlapped \/ MidAlloc]
    /\ UNCHANGED <<phase, head, tail, mutex, maplen, live, nmaps, unmapLog,
                   pc, call, ptr, issued, ncalls, nresets, aborted, mem, align>>

\* pthread_mutex_destroy and pthread_mutex_init at the end of arena_reset.
\* Destroying a mutex that a thread holds is undefined: with ok it is
\* destroyed all the same, without ok the call returns an error
ResetMutex(ok) ==
    /\ ~aborted
    /\ resetting.pc = "mutex"
    /\ IF mutex.owner = NoThread \/ ok
       THEN /\ mutex' = [init |-> TRUE, owner |-> NoThread]
            /\ nresets' = nresets + 1
            /\ issued' = <<>>
            /\ resetting' = [pc |-> "none", curr |-> NULL,
                             overlapped |-> resetting.overlapped
                                              \/ mutex.owner # NoThread]
            /\ UNCHANGED aborted
       ELSE /\ aborted' = TRUE      \* assert(ret == 0)
            /\ UNCHANGED <<mutex, nresets, issued, resetting>>
    /\ UNCHANGED <<phase, head, tail, heap, maplen, live, nmaps, unmapLog,
                   pc, call, ptr, ncalls, mem, align>>

\* arena__alloc__unlocked: the first-fit loop up to curr->count += size;
\* curr is the Region of ptr
AllocBumpCount(t) ==
    /\ ~aborted
    /\ pc[t] = "alloc"
    /\ head # NULL
    /\ LET size == call[t].size
           curr == FirstFit(heap, head, size)
       IN  /\ curr # NULL
           /\ ptr' = [ptr EXCEPT ![t] =
                         [map |-> curr, addr |-> heap[curr].bytes + heap[curr].count]]
           /\ heap' = [heap EXCEPT ![curr].count = Bump(heap[curr], size).count]
    /\ pc' = [pc EXCEPT ![t] = "remaining"]
    /\ resetting' = [resetting EXCEPT
                         !.overlapped = @ \/ resetting.pc = "remaining"]
    /\ UNCHANGED <<phase, head, tail, mutex, maplen, live, nmaps, unmapLog,
                   call, issued, ncalls, nresets, aborted, mem, align>>

\* arena__alloc__unlocked: curr->remaining -= size; return ptr;
\* a Region that arena_destroy has unmapped in between cannot be written
AllocBumpRemaining(t) ==
    /\ ~aborted
    /\ pc[t] = "remaining"
    /\ LET curr == ptr[t].map
       IN  IF curr \in DOMAIN heap
           THEN /\ heap' = [heap EXCEPT ![curr].remaining =
                                Bump(heap[curr], call[t].size).remaining]
                /\ issued' = Append(issued, [ptr |-> ptr[t], size |-> call[t].size,
                                             thread |-> t, op |-> call[t].op])
                /\ pc' = [pc EXCEPT ![t] = "unlock"]
                /\ resetting' = [resetting EXCEPT
                                     !.overlapped = @ \/ resetting.pc = "remaining"]
                /\ UNCHANGED aborted
           ELSE /\ aborted' = TRUE
                /\ UNCHANGED <<heap, issued, pc, resetting>>
    /\ UNCHANGED <<phase, head, tail, mutex, maplen, live, nmaps, unmapLog,
                   call, ptr, ncalls, nresets, mem, align>>

\* arena_destroy is run beside the threads, whoever holds the mutex.
\* Destroying a mutex that a thread holds is undefined: with ok it is
\* destroyed all the same, without ok the call returns an error
DestroyBeside(ok) ==
    /\ resetting.pc = "none"
    /\ IF mutex.owner = NoThread \/ ok
       THEN DestroyBody
       ELSE /\ ~aborted
            /\ phase = "Active"
            /\ aborted' = TRUE      \* assert(ret == 0)
            /\ UNCHANGED <<phase, arenaVars, pc, call, ptr, issued, ncalls,
                           nresets, mem, align, resetting>>

\* arena__alloc__unlocked when the loop finds no Region with room
AllocGrow(t, ok) ==
    /\ FirstFit(heap, head, call[t].size) = NULL
    /\ AllocUnlocked(t, ok)

NextRace ==
    \/ \E size \in RaceInitSizes, ok \in BOOLEAN : arena_init(size, ok)
    \/ \E t \in Threads, size \in RaceAllocSizes : AllocCall(t, size)
    \/ \E t \in Threads, ok \in BOOLEAN : Lock(t, ok)
    \/ \E t \in Threads : AllocBumpCount(t)
    \/ \E t \in Threads : AllocBumpRemaining(t)
    \/ \E t \in Threads, ok \in BOOLEAN : AllocGrow(t, ok)
    \/ \E t \in Threads : Unlock(t)
    \/ ResetBegin
    \/ ResetCount
    \/ ResetRemaining
    \/ \E ok \in BOOLEAN : ResetMutex(ok)
    \/ \E ok \in BOOLEAN : DestroyBeside(ok)

SpecRace == Init /\ [][NextRace]_vars

(* ---------------------- callers that use their blocks ------------------ *)
\* the blocks of positive size that thread t holds
HeldBlocks(t) == {b \in OldBlocks(t) : b.size > 0}

\* thread t stores its number in the first byte of a block it holds
Fill(t, b) ==
    /\ ~aborted
    /\ phase = "Active"
    /\ pc[t] = "idle"
    /\ Read(mem, b.ptr) # t
    /\ mem' = Write(mem, b.ptr, t)
    /\ UNCHANGED <<phase, arenaVars, pc, call, ptr, issued, ncalls, nresets,
                   aborted, align,
                   resetting>>

NextMem ==
    \/ Next
    \/ \E t \in Threads : \E b \in HeldBlocks(t) : Fill(t, b)

SpecMem == Init /\ [][NextMem]_vars

(* --------------------- vocabulary of the properties -------------------- *)
\* the Regions of the arena, head to tail
Regions == RegionsFrom(heap, head)

\* offset of an address inside the usable bytes of its Region
OffsetOf(p) == p.addr - heap[p.map].bytes

\* offset 0 of Region r
StartOf(r) == [map |-> r, addr |-> heap[r].bytes]

\* two blocks share a byte
Overlap(b, c) ==
    /\ b.ptr.map = c.ptr.map
    /\ b.ptr.addr < c.ptr.addr + c.size
    /\ c.ptr.addr < b.ptr.addr + b.size

\* sum of the sizes of the first k blocks of a log
RECURSIVE SumSizes(_, _)
SumSizes(log, k) == IF k = 0 THEN 0 ELSE log[k].size + SumSizes(log, k - 1)

\* sum of the sizes of the first k blocks of a log that lie in mapping r
RECURSIVE SumSizesIn(_, _, _)
SumSizesIn(log, k, r) ==
    IF k = 0 THEN 0
    ELSE (IF log[k].ptr.map = r THEN log[k].size ELSE 0) + SumSizesIn(log, k - 1, r)

\* thread t takes the step that runs arena__alloc__unlocked to its return
AllocReturns(t) == pc[t] = "alloc" /\ pc'[t] # "alloc"

(* ------------------------------- claims -------------------------------- *)
\* C1: between arena_init and the next arena_reset or arena_destroy, the
\* blocks [ptr, ptr + size) returned by arena_alloc calls with size > 0 are
\* pairwise disjoint, the calls that append a Region and the calls after
\* them included.
C1_AllocBlocksDisjoint ==
    \A i, j \in DOMAIN issued :
        (/\ i < j
         /\ issued[i].op = "alloc" /\ issued[j].op = "alloc"
         /\ issued[i].size > 0 /\ issued[j].size > 0)
        => ~Overlap(issued[i], issued[j])

\* the blocks handed out are all arena_alloc(M) blocks for one M > 0, and
\* both threads have been served
UniformRun ==
    /\ \A i \in DOMAIN issued :
          issued[i].op = "alloc" /\ issued[i].size > 0 /\ issued[i].size = issued[1].size
    /\ \A t \in Threads : \E i \in DOMAIN issued : issued[i].thread = t

\* C2: when the threads each call arena_alloc(M), M > 0, on one arena, no
\* address is returned twice and the blocks returned do not overlap, in
\* every interleaving and also when Regions are appended.
C2_ConcurrentBlocksDistinct ==
    UniformRun =>
        \A i, j \in DOMAIN issued :
            i # j => /\ issued[i].ptr # issued[j].ptr
                     /\ ~Overlap(issued[i], issued[j])

\* C3: whenever no allocation is in flight, each Region's count is the sum
\* of the sizes of the blocks issued from it since arena_init or the last
\* arena_reset, and its remaining is its capacity minus that sum.
C3_CountIsSumOfIssued ==
    (AllIdle /\ phase = "Active") =>
        \A r \in Range(Regions) :
            /\ heap[r].count = SumSizesIn(issued, Len(issued), r)
            /\ heap[r].remaining = heap[r].capacity - SumSizesIn(issued, Len(issued), r)

\* C4: when arena_alloc(size) runs with every existing Region's remaining
\* below size and returns, exactly one Region has been appended, it is
\* linked after the previous tail and is the new tail, the pointer returned
\* is offset 0 of it, and the count, remaining and capacity of every Region
\* that existed before are unchanged.
C4_GrowthAppendsOneTail ==
    [][\A t \in Threads :
          (/\ AllocReturns(t)
           /\ \A r \in Range(Regions) : heap[r].remaining < call[t].size)
          => /\ nmaps' = nmaps + 1
             /\ live' = live \cup {nmaps'}
             /\ tail' = nmaps'
             /\ head' = head
             /\ heap'[tail].next = tail'
             /\ heap'[tail'].next = NULL
             /\ RegionsFrom(heap', head') = Regions \o <<tail'>>
             /\ ptr'[t] = [map |-> tail', addr |-> heap'[tail'].bytes]
             /\ \A r \in DOMAIN heap :
                   /\ heap'[r].count = heap[r].count
                   /\ heap'[r].remaining = heap[r].remaining
                   /\ heap'[r].capacity = heap[r].capacity
      ]_vars

\* a thread has just been served from a Region appended for its request
C4_Witness ==
    \E t \in Threads :
        /\ pc[t] = "unlock"
        /\ call[t].op = "alloc"
        /\ tail # head
        /\ tail = nmaps
        /\ ptr[t] = StartOf(tail)
        /\ issued[Len(issued)].ptr = StartOf(tail)
        /\ \A r \in Range(Regions) \ {tail} : heap[r].remaining < call[t].size

\* C5: every block returned by arena_alloc(size) lies inside the usable
\* bytes of one Region: offset + size <= capacity of that Region; so a
\* Region appended for a request of size bytes has capacity >= size.
C5_BlockInsideRegion ==
    \A i \in DOMAIN issued :
        issued[i].op = "alloc" =>
            OffsetOf(issued[i].ptr) + issued[i].size <= heap[issued[i].ptr.map].capacity

\* C6: after arena_init, as long as the sizes requested sum to no more than
\* the first Region's capacity, no Region is appended and the k-th block is
\* in the first Region at the offset that is the sum of the k-1 earlier
\* sizes.
C6_FirstRegionSequentialOffsets ==
    (/\ phase = "Active"
     /\ nresets = 0
     /\ SumSizes(issued, Len(issued)) <= heap[head].capacity)
    => /\ nmaps = 1
       /\ Regions = <<head>>
       /\ \A k \in DOMAIN issued :
             /\ issued[k].ptr.map = head
             /\ OffsetOf(issued[k].ptr) = SumSizes(issued, k - 1)
             /\ \A j \in DOMAIN issued : j < k /\ issued[j].size > 0 /\ issued[k].size > 0
                                          => ~Overlap(issued[j], issued[k])

\* two blocks of positive size lie one after the other in the first Region
C6_Witness ==
    /\ phase = "Active"
    /\ nresets = 0
    /\ Len(issued) >= 2
    /\ issued[1].size > 0 /\ issued[2].size > 0
    /\ SumSizes(issued, Len(issued)) <= heap[head].capacity
    /\ issued[1].ptr = StartOf(head)
    /\ OffsetOf(issued[2].ptr) = issued[1].size

\* the step is a call of arena_reset
ResetStep == nresets' = nresets + 1

\* the step issues the first block since an arena_reset
FirstAllocAfterReset == nresets > 0 /\ issued = <<>> /\ Len(issued') = 1

\* C7: arena_reset sets count = 0 and remaining = capacity on every Region,
\* maps and unmaps nothing and leaves the number, order and capacity of the
\* Regions unchanged; the next allocation whose size fits the first Region's
\* capacity returns offset 0 of the first Region.
C7_ResetRewindsEveryRegion ==
    [][/\ ResetStep =>
            /\ \A r \in Range(Regions) :
                  /\ heap'[r].count = 0
                  /\ heap'[r].remaining = heap[r].capacity
                  /\ heap'[r].capacity = heap[r].capacity
            /\ RegionsFrom(heap', head') = Regions
            /\ UNCHANGED <<head, tail, nmaps, live, maplen, unmapLog>>
       /\ (FirstAllocAfterReset /\ issued'[1].size <= heap[head].capacity) =>
            issued'[1].ptr = StartOf(head)
      ]_vars

\* after a reset of an arena of several Regions, a block of positive size
\* has been issued at offset 0 of the first Region
C7_Witness ==
    /\ nresets > 0
    /\ Len(Regions) >= 2
    /\ Len(issued) >= 1
    /\ issued[1].size > 0
    /\ issued[1].ptr = StartOf(head)

\* the step is a call of arena_destroy
DestroyStep == phase = "Active" /\ phase' = "Destroyed"

\* C8: arena_destroy unmaps each Region of the arena exactly once, in
\* head-to-tail order, and leaves head and tail empty; afterwards nothing
\* mapped for the arena by arena_init or by growth is still mapped.
C8_DestroyUnmapsAll ==
    [][DestroyStep =>
          /\ Len(unmapLog') = Len(unmapLog) + Len(Regions)
          /\ \A k \in 1 .. Len(Regions) :
                unmapLog'[Len(unmapLog) + k].map = Regions[k]
          /\ \A i, j \in DOMAIN unmapLog' : i # j => unmapLog'[i].map # unmapLog'[j].map
          /\ Range(Regions) = live
          /\ live' = {}
          /\ head' = NULL
          /\ tail' = NULL
      ]_vars

\* an arena that had grown to three Regions has been destroyed
C8_Witness ==
    /\ phase = "Destroyed"
    /\ nmaps = 3
    /\ Len(unmapLog) = 3
    /\ live = {}

\* C9: for every Region, created by arena_init or by growth on either
\* path, header size + capacity is the byte count that was passed to mmap
\* for it, in every state up to its release, and arena__free__region passes
\* exactly that byte count to munmap.
C9_FreeSizeIsMappedSize ==
    /\ \A r \in live : ARENA_REGION_SIZE + heap[r].capacity = maplen[r]
    /\ \A k \in DOMAIN unmapLog : unmapLog[k].len = maplen[unmapLog[k].map]

\* Regions of all three origins (arena_init, the default path, the
\* page-aligned path) have been released
C9_Witness ==
    /\ phase = "Destroyed"
    /\ Len(unmapLog) = 3
    /\ \E k \in 2 .. 3 : unmapLog[k].len = ARENA_REGION_DEFAULT_CAPACITY
    /\ \E k \in 2 .. 3 : unmapLog[k].len > ARENA_REGION_DEFAULT_CAPACITY

\* thread t takes the step of arena_realloc that compares the two sizes
ReallocDecides(t) == pc[t] = "check" /\ pc'[t] # "check"

\* arena_realloc returns old_ptr at once: nothing of the arena changes and
\* the mutex is not touched
ReturnsOldUntouched(t) ==
    /\ pc'[t] = "idle"
    /\ ptr'[t] = call[t].old_ptr
    /\ UNCHANGED <<head, tail, mutex, heap, maplen, live, nmaps, unmapLog, issued>>

\* C10 as stated: arena_realloc with newSize <= oldSize, equality included,
\* returns p itself and changes nothing in the arena, no lock taken.
C10_KeepsWhenNotLarger ==
    [][\A t \in Threads :
          (ReallocDecides(t) /\ call[t].size <= call[t].old_size)
          => ReturnsOldUntouched(t)
      ]_vars

\* C10 amended: arena_realloc with newSize < oldSize returns p itself and
\* changes nothing in the arena, no lock taken; with newSize = oldSize it
\* goes on to take the lock and allocate like a growing call.
C10_KeepsWhenSmaller ==
    [][\A t \in Threads :
          /\ (ReallocDecides(t) /\ call[t].size < call[t].old_size)
             => ReturnsOldUntouched(t)
          /\ (ReallocDecides(t) /\ call[t].size = call[t].old_size)
             => pc'[t] = "lock"
      ]_vars

\* a shrinking arena_realloc of a block has returned the block's pointer
C10_Witness ==
    \E t \in Threads :
        /\ pc[t] = "idle"
        /\ call[t].op = "realloc"
        /\ call[t].size < call[t].old_size
        /\ call[t].old_ptr # NULLPTR
        /\ ptr[t] = call[t].old_ptr

(* ------------------------ arena_realloc that grows --------------------- *)
\* the copy loop of thread t's arena_realloc runs in this step
CopyStep(t) == pc[t] = "copy" /\ pc'[t] = "unlock"

\* the block thread t passed to arena_realloc, and the block it got
OldBlockOf(t) == [ptr |-> call[t].old_ptr, size |-> call[t].old_size]
NewBlockOf(t) == [ptr |-> ptr[t], size |-> call[t].size]

\* C11: arena_realloc(p, oldSize, newSize) with newSize > oldSize returns a
\* fresh block of newSize bytes, distinct from the old block and not
\* overlapping it, whose first oldSize bytes equal the bytes the old block
\* held; the bytes of the old block are left as they were.  (An old block
\* of no bytes overlaps nothing, wherever it is.)
C11_GrowGivesFreshCopy ==
    [][\A t \in Threads :
          (CopyStep(t) /\ call[t].size > call[t].old_size)
          => /\ ptr[t] # NULLPTR
             /\ call[t].old_size > 0
                => /\ ptr[t] # call[t].old_ptr
                   /\ ~Overlap(NewBlockOf(t), OldBlockOf(t))
             /\ \A i \in 0 .. call[t].old_size - 1 :
                   /\ Read(mem', At(ptr[t], i)) = Read(mem, At(call[t].old_ptr, i))
                   /\ Read(mem', At(call[t].old_ptr, i))
                          = Read(mem, At(call[t].old_ptr, i))
      ]_vars

(* --------------------------- mutual exclusion -------------------------- *)
\* thread t is between pthread_mutex_lock and pthread_mutex_unlock
InCritical(t) == pc[t] \in {"alloc", "copy", "unlock"}

\* a step of arena_alloc or arena_realloc (not init, reset or destroy)
\* writes a Region's fields, a next link or tail
CallWritesRegions ==
    /\ phase' = phase
    /\ nresets' = nresets
    /\ (heap' # heap \/ tail' # tail)

\* C12: at most one thread at a time is inside arena__alloc__unlocked, and
\* every write by arena_alloc or arena_realloc to a Region's count or
\* remaining, to a next link or to tail is made by the thread that holds
\* the arena's mutex.
C12_MutualExclusion ==
    /\ [](\A t, u \in Threads :
             /\ (InCritical(t) /\ InCritical(u)) => t = u
             /\ InCritical(t) => mutex.owner = t)
    /\ [][CallWritesRegions
          => \E t \in Threads :
                 /\ pc[t] = "alloc"
                 /\ pc'[t] # "alloc"
                 /\ mutex.owner = t
                 /\ \A u \in Threads \ {t} : ~InCritical(u) /\ pc'[u] = pc[u]
      ]_vars

\* one thread is inside arena__alloc__unlocked on a live arena while the
\* other waits in pthread_mutex_lock
C12_Witness ==
    /\ phase = "Active"
    /\ \E t, u \in Threads :
          /\ pc[t] = "alloc"
          /\ pc[u] = "lock"
          /\ mutex.owner = t

(* ------------------- calls on an arena with no Region ------------------ *)
\* a step taken while the Region list is empty, other than by arena_init
EmptyListStep == head = NULL /\ phase' = phase

\* thread t's call returns to its caller in this step
Returns(t) == pc[t] # "idle" /\ pc'[t] = "idle"

\* nothing of the Regions, of the list or of the blocks handed out changes
RegionsUntouched == UNCHANGED <<head, tail, heap, maplen, live, nmaps, issued>>

\* C13 as stated: arena_alloc and arena_realloc on an arena whose Region
\* list is empty (never initialized, or destroyed) never return a pointer
\* and never change any Region state.
C13_EmptyArenaNeverServes ==
    [][EmptyListStep
       => /\ RegionsUntouched
          /\ \A t \in Threads : ~Returns(t)
      ]_vars

\* C13 amended: on an arena whose Region list is empty no call changes any
\* Region state; arena_alloc stops at once at its head != NULL assertion;
\* arena_realloc with newSize < oldSize returns oldPointer, and with
\* newSize >= oldSize it never returns: it stops at an assertion, the one on
\* the result of pthread_mutex_lock or head != NULL in arena__alloc__unlocked.
C13_EmptyArenaOnlyShrinkReturns ==
    [][EmptyListStep
       => /\ RegionsUntouched
          /\ \A t \in Threads :
                /\ \A size \in AllocSizes : AllocCall(t, size) => aborted'
                /\ Returns(t)
                   => /\ pc[t] = "check"
                      /\ call[t].op = "realloc"
                      /\ call[t].size < call[t].old_size
                      /\ ptr'[t] = call[t].old_ptr
                /\ pc[t] = "alloc" => pc'[t] = "alloc"
                /\ \A ok \in BOOLEAN : AllocUnlocked(t, ok) => aborted'
      ]_vars

\* on a destroyed arena one thread's shrinking arena_realloc was given its
\* old pointer back and the other thread's growing arena_realloc has
\* stopped at the assertion of arena__alloc__unlocked
C13_Witness ==
    /\ phase = "Destroyed"
    /\ aborted
    /\ \E t, u \in Threads :
          /\ pc[t] = "alloc"
          /\ call[t].op = "realloc"
          /\ pc[u] = "idle"
          /\ call[u].op = "realloc"
          /\ call[u].size < call[u].old_size
          /\ ptr[u] = call[u].old_ptr
          /\ ptr[u].map \notin live

(* --------------------------- arena__align__size ------------------------ *)
\* r is the smallest multiple of the page size that is >= x + sizeof(Region)
SmallestPageMultiple(x, r) ==
    /\ r % ARENA_PAGE_SIZE = 0
    /\ r >= x + ARENA_REGION_SIZE
    /\ r - ARENA_PAGE_SIZE < x + ARENA_REGION_SIZE

\* C19: over the whole size_t range arena__align__size is monotone (a <= b
\* gives align(a) <= align(b)) and align(a) is the smallest multiple of the
\* page size >= a + sizeof(Region); where that does not fit the word the
\* function fails: it never returns a wrapped, smaller value.
C19_AlignMonotoneExact ==
    /\ align.pc \in {"second", "done"}
       => SmallestPageMultiple(align.a, align.ra)
    /\ align.pc = "done"
       => /\ SmallestPageMultiple(align.b, align.rb)
          /\ align.a <= align.b => align.ra <= align.rb

(* -------------------------------- arena_init --------------------------- *)
\* C14: after arena_init(arena, c), for any capacity hint c, the arena holds
\* exactly one Region: head = tail, next is null, count = 0, remaining =
\* capacity, capacity >= c, and header + capacity is a multiple of the page
\* size; the mutex is initialized and free.
C14_InitGivesOneRegion ==
    [][\A c \in InitSizes, ok \in BOOLEAN :
          (arena_init(c, ok) /\ phase' = "Active")
          => /\ head' # NULL
             /\ head' = tail'
             /\ RegionsFrom(heap', head') = <<head'>>
             /\ live' = {head'}
             /\ heap'[head'].next = NULL
             /\ heap'[head'].count = 0
             /\ heap'[head'].remaining = heap'[head'].capacity
             /\ heap'[head'].capacity >= c
             /\ (ARENA_REGION_SIZE + heap'[head'].capacity) % ARENA_PAGE_SIZE = 0
             /\ mutex' = [init |-> TRUE, owner |-> NoThread]
      ]_vars

(* ------------------------ failure of arena_alloc ----------------------- *)
\* no Region of the list has room for size bytes
NoRoom(size) == \A r \in Range(Regions) : heap[r].remaining < size

\* C15: arena_alloc on an Active arena never returns a null or invalid
\* pointer: its only failure is the OS refusing the mapping for a new
\* Region, and then the call ends in the fatal assertion without returning
\* and without linking any Region (head, tail and every existing Region
\* are as before the call).
C15_AllocFailsOnlyOnMmap ==
    /\ [](\A i \in DOMAIN issued :
             issued[i].op = "alloc"
             => /\ issued[i].ptr # NULLPTR
                /\ issued[i].ptr.map \in live
                /\ issued[i].ptr.addr >= ARENA_REGION_SIZE
                /\ issued[i].ptr.addr <= maplen[issued[i].ptr.map])
    /\ [][phase = "Active"
          => \A t \in Threads :
                /\ \A size \in AllocSizes : AllocCall(t, size) => ~aborted'
                /\ \A ok \in BOOLEAN :
                      (AllocUnlocked(t, ok) /\ call[t].op = "alloc")
                      => IF NoRoom(call[t].size) /\ ~ok
                         THEN /\ aborted'
                              /\ pc'[t] = "alloc"
                              /\ UNCHANGED <<head, tail, heap, maplen, live,
                                             nmaps, ptr, issued>>
                         ELSE /\ ~aborted'
                              /\ ptr'[t] # NULLPTR
                              /\ pc'[t] = "unlock"
      ]_vars

\* on an Active arena that has grown before, an arena_alloc that needs a
\* new Region has stopped in the assertion on the result of mmap
C15_Witness ==
    /\ phase = "Active"
    /\ aborted
    /\ nmaps >= 2
    /\ \E t \in Threads :
          /\ pc[t] = "alloc"
          /\ call[t].op = "alloc"
          /\ NoRoom(call[t].size)

(* --------------------------- Region accounting ------------------------- *)
\* C16: in every state reached by init, alloc, realloc and reset (reset
\* never overlapping an allocation in flight), whenever the lock is free
\* every Region satisfies 0 <= count <= capacity and count + remaining =
\* capacity.
C16_CountPlusRemainingIsCapacity ==
    (phase = "Active" /\ mutex.owner = NoThread)
    => \A r \in Range(Regions) :
          /\ 0 <= heap[r].count
          /\ heap[r].count <= heap[r].capacity
          /\ heap[r].count + heap[r].remaining = heap[r].capacity

\* the lock is free, the arena has been reset and has grown, and a Region
\* is partly used
C16_Witness ==
    /\ phase = "Active"
    /\ mutex.owner = NoThread
    /\ nresets > 0
    /\ Len(Regions) >= 2
    /\ \E r \in Range(Regions) :
          heap[r].count > 0 /\ heap[r].count < heap[r].capacity

(* ------------------------------ Region list ---------------------------- *)
\* the first k Regions at most of the list that starts at curr
RECURSIVE Walk(_, _, _)
Walk(h, curr, k) ==
    IF curr = NULL \/ k = 0 THEN <<>>
    ELSE <<curr>> \o Walk(h, h[curr].next, k - 1)

\* C17: between the end of arena_init and the start of arena_destroy the
\* Region list is non-empty and acyclic, tail is reachable from head,
\* tail's next is null, and tail is the Region appended last: the Regions
\* are linked in the order in which they were acquired, after any number of
\* growths and resets.
C17_ListWellFormed ==
    phase = "Active"
    => LET w == Walk(heap, head, nmaps + 1)
       IN  /\ head # NULL
           /\ Len(w) <= nmaps
           /\ \A j, k \in DOMAIN w : w[j] = w[k] => j = k
           /\ \E k \in DOMAIN w : w[k] = tail
           /\ heap[tail].next = NULL
           /\ tail = nmaps
           /\ w = [k \in 1 .. nmaps |-> k]

\* the arena has grown twice and has been reset
C17_Witness ==
    /\ phase = "Active"
    /\ nresets > 0
    /\ Len(Regions) >= 3
    /\ tail = 3

(* -------------------------------- first fit --------------------------- *)
\* the positions in the list of the Regions with room for size bytes
RoomAt(size) == {k \in DOMAIN Regions : heap[Regions[k]].remaining >= size}

\* every Region but r is as it was, and no Region is added
OnlyChanges(r) ==
    /\ DOMAIN heap' = DOMAIN heap
    /\ nmaps' = nmaps
    /\ tail' = tail
    /\ \A q \in DOMAIN heap \ {r} : heap'[q] = heap[q]

\* C18: first fit.  An allocation of size bytes is served from Region i
\* exactly when Region i has remaining >= size and every Region before it
\* in the list has remaining < size, and then only Region i's count and
\* remaining change; a new Region is appended exactly when every Region of
\* the list has remaining < size.
C18_FirstFit ==
    [][\A t \in Threads :
          (phase = "Active" /\ AllocReturns(t))
          => LET size == call[t].size
             IN  IF RoomAt(size) = {}
                 THEN /\ nmaps' = nmaps + 1
                      /\ RegionsFrom(heap', head') = Regions \o <<nmaps'>>
                      /\ ptr'[t].map = nmaps'
                 ELSE LET i == Regions[CHOOSE k \in RoomAt(size) :
                                          \A j \in RoomAt(size) : k <= j]
                      IN  /\ ptr'[t] = [map |-> i,
                                        addr |-> heap[i].bytes + heap[i].count]
                          /\ heap'[i] = [heap[i] EXCEPT
                                            !.count = @ + size,
                                            !.remaining = @ - size]
                          /\ OnlyChanges(i)
      ]_vars

\* a block of positive size was just served from the second Region, which
\* had been used before, because the first had no room for it while it has
\* room for some smaller request
C18_Witness ==
    /\ phase = "Active"
    /\ Len(Regions) >= 2
    /\ \E t \in Threads :
          /\ pc[t] = "unlock"
          /\ call[t].size > 0
          /\ ptr[t].map = Regions[2]
          /\ OffsetOf(ptr[t]) > 0
          /\ heap[Regions[1]].remaining < call[t].size
          /\ heap[Regions[1]].remaining > 0

(* -------------------------------- progress ----------------------------- *)
\* C20: with fair scheduling and no thread dying inside the critical
\* section, every arena_alloc or arena_realloc call on an Active arena
\* eventually returns; the mutex is released on every return path of both
\* operations, so it is free whenever no call is in flight.
C20_CallsReturnMutexFreed ==
    /\ [](AllIdle => mutex.owner = NoThread)
    /\ [][\A t \in Threads : Returns(t) => mutex'.owner # t]_vars
    /\ \A t \in Threads :
          (phase = "Active" /\ pc[t] # "idle") ~> (pc[t] = "idle" \/ aborted)

\* on an Active arena a thread whose arena_realloc went through the
\* critical section has returned and the mutex is free, while the other
\* thread's call is waiting for the mutex or about to take it
C20_Witness ==
    /\ phase = "Active"
    /\ ~aborted
    /\ mutex.owner = NoThread
    /\ \E t, u \in Threads :
          /\ pc[t] = "idle"
          /\ call[t].op = "realloc"
          /\ call[t].size >= call[t].old_size
          /\ ptr[t] # NULLPTR
          /\ pc[u] = "lock"

(* ----------------------------- arena_alloc(0) -------------------------- *)
\* thread t takes a step of a call arena_alloc(arena, 0)
ZeroAllocStep(t) ==
    /\ pc'[t] # pc[t]
    /\ call'[t].op = "alloc"
    /\ call'[t].size = 0

\* C23: arena_alloc(arena, 0) on an Active arena leaves all bookkeeping
\* unchanged in every state, one where every Region is full included: no
\* Region is appended, no count or remaining changes, and the pointer
\* returned is the current bump position of the first Region.
C23_ZeroAllocChangesNothing ==
    [][\A t \in Threads :
          (phase = "Active" /\ ZeroAllocStep(t))
          => /\ UNCHANGED <<head, tail, heap, maplen, live, nmaps>>
             /\ AllocReturns(t)
                => ptr'[t] = [map |-> head,
                              addr |-> heap[head].bytes + heap[head].count]
      ]_vars

\* arena_alloc(arena, 0) has come back from arena__alloc__unlocked while
\* every Region of the list is full
C23_Witness ==
    /\ phase = "Active"
    /\ \A r \in Range(Regions) : heap[r].remaining = 0
    /\ \E t \in Threads :
          /\ pc[t] = "unlock"
          /\ call[t].op = "alloc"
          /\ call[t].size = 0
          /\ ptr[t] = [map |-> head, addr |-> heap[head].bytes + heap[head].capacity]

(* ------------------------ Regions only grow fuller --------------------- *)
\* a step of arena_alloc or arena_realloc: not init, reset or destroy
CallStep == phase' = phase /\ nresets' = nresets

\* the Regions of the list before the step are the first Regions of the
\* list after it, in the same order
ListExtends ==
    LET after == RegionsFrom(heap', head')
    IN  /\ Len(after) >= Len(Regions)
        /\ \A k \in DOMAIN Regions : after[k] = Regions[k]

\* C24: across every step of arena_alloc and arena_realloc each existing
\* Region's count does not decrease and its capacity, its start address and
\* its position in the list are unchanged; count decreases only in
\* arena_reset, and a Region leaves the list only in arena_destroy (while
\* Active the list is append-only).
C24_RegionsOnlyGrowFuller ==
    [][phase = "Active"
       => /\ CallStep
             => /\ ListExtends
                /\ \A r \in Range(Regions) :
                      /\ heap'[r].count >= heap[r].count
                      /\ heap'[r].capacity = heap[r].capacity
                      /\ heap'[r].bytes = heap[r].bytes
                      /\ maplen'[r] = maplen[r]
                      /\ r \in live'
          /\ (\E r \in Range(Regions) :
                 r \in DOMAIN heap' /\ heap'[r].count < heap[r].count)
             => ResetStep
          /\ (\E r \in Range(Regions) : r \notin Range(RegionsFrom(heap', head')))
             => DestroyStep
      ]_vars

\* after a reset that took a Region's count down, an allocation has raised
\* the count of the first Region again while the list holds the Region
\* appended before the reset
C24_Witness ==
    /\ phase = "Active"
    /\ nresets > 0
    /\ Len(Regions) >= 2
    /\ heap[head].count > 0
    /\ \E t \in Threads :
          /\ pc[t] = "unlock"
          /\ ptr[t].map = head
          /\ call[t].size > 0

(* ------------------------ the copy and the mutex ----------------------- *)
\* C21 as stated: arena_realloc holds the mutex only for its allocation
\* step; the copy of the old block's bytes is performed after the mutex has
\* been released.
C21_CopyAfterRelease ==
    [][\A t \in Threads : CopyStep(t) => mutex.owner # t]_vars

\* C21 amended: arena_realloc holds the mutex from before its allocation
\* step until after the copy of the old block's bytes: the copy is made by
\* the holder of the mutex, and while a reallocation is copying no other
\* thread's arena_alloc or arena_realloc gets past pthread_mutex_lock.
C21_CopyUnderMutex ==
    /\ [](\A t \in Threads :
             pc[t] = "copy"
             => /\ mutex.owner = t
                /\ \A u \in Threads \ {t} : ~InCritical(u))
    /\ [][\A t \in Threads :
             /\ CopyStep(t) => (mutex.owner = t /\ mutex'.owner = t)
             /\ pc[t] = "copy"
                => \A u \in Threads \ {t} : pc[u] = "lock" => pc'[u] = "lock"
      ]_vars

\* a reallocation is about to copy a block of positive size while the
\* other thread's arena_alloc waits in pthread_mutex_lock
C21_Witness ==
    /\ phase = "Active"
    /\ \E t, u \in Threads :
          /\ pc[t] = "copy"
          /\ call[t].old_size > 0
          /\ pc[u] = "lock"
          /\ call[u].op = "alloc"

(* ---------------------------------------------------------------------- *)
\* no call is in flight and no arena_reset is under way
Quiescent == AllIdle /\ resetting.pc = "none" /\ ~aborted

\* the bookkeeping of every Region of the list adds up
Balanced ==
    \A r \in Range(Regions) :
        heap[r].count + heap[r].remaining = heap[r].capacity

\* a step of arena_reset or of arena_destroy
ResetMoves == resetting.pc' # resetting.pc \/ nresets' # nresets \/ DestroyStep

\* the next step of arena_reset, and arena_destroy, can be taken now
ResetCanMove ==
    /\ resetting.pc = "none" /\ phase = "Active" /\ nresets < MaxResets
          => ENABLED ResetBegin
    /\ resetting.pc = "none" /\ phase = "Active"
          => \A ok \in BOOLEAN : ENABLED DestroyBeside(ok)
    /\ resetting.pc = "count" => ENABLED ResetCount
    /\ resetting.pc = "remaining" => ENABLED ResetRemaining
    /\ resetting.pc = "mutex" => \A ok \in BOOLEAN : ENABLED ResetMutex(ok)

\* C22: arena_reset and arena_destroy never acquire the mutex and never wait
\* for it: each of their steps can be taken whoever holds the mutex, and none
\* of them makes a thread the owner.  It is therefore not safe beside an allocation in
\* progress: as long as none of its per-Region writes is interleaved with the
\* two writes of an allocation (and it did not re-create a held mutex),
\* every Region has count + remaining = capacity whenever nothing is in
\* flight; with such an interleaving a state where some Region has
\* count + remaining # capacity is reachable.
C22_ResetTakesNoLock ==
    /\ [](~aborted => ResetCanMove)
    /\ [][ResetMoves => mutex'.owner \in {mutex.owner, NoThread}]_vars
    /\ [](Quiescent /\ ~resetting.overlapped => Balanced)

\* C22 witness: nothing is in flight, a reset went through beside the one
\* allocation that was ever made, and a Region's bookkeeping no longer adds
\* up
C22_Witness ==
    /\ Quiescent
    /\ ncalls = 1
    /\ phase = "Active"
    /\ nresets > 0
    /\ resetting.overlapped
    /\ ~Balanced

====
